---- MODULE Spec2Model ----
(***************************************************************************)
(* State-machine model of the Simon Says memory game                       *)
(* (src/src/SimonGame_Final_JuneTwentyFive.ino).                           *)
(*                                                                         *)
(* The sketch is single threaded: setup() runs once, then loop() is called *)
(* again and again.  pc is the position of that single thread.  Display,   *)
(* LED and speaker output is recorded in "cues"/"echoes"/"shown*" only as  *)
(* far as the game rules depend on it; delays have no effect on the state. *)
(***************************************************************************)
EXTENDS Integers, Sequences, FiniteSets, TLC

(* ---------------------------------------------------------------------- *)
(* Bounds and program constants                                            *)
(* ---------------------------------------------------------------------- *)

\* Capacity of gameSequence.  The sketch sets it to 100 (line 37); the model
\* is checked for a scaled-down capacity, every formula is stated in terms of
\* MAX_GAME_LENGTH and not of its value.
MAX_GAME_LENGTH == 4

\* Successful verifications after which the model starts no further round
\* (failed ones are bounded by the lives).
MaxWins == 3

\* A byte is 8 bits wide.
ByteMod == 256

\* "Unset" value of an erased EEPROM cell, also the timeout value of
\* readButtonsWithCountdown.
Sentinel == 255

\* Budget of one read in Speed mode, in milliseconds.
CountdownTime == 3000

\* delay(20) between the poll and the re-poll of a button, in milliseconds.
DebounceMs == 20

\* delay(1) that ends a pass of the loop of readButtonsDebounced.
BlockingPollMs == 1

\* delay(10) that ends a pass of the loop of readButtonsWithCountdown.
CountdownPollMs == 10

\* countdownTime of the calls of readButtonsWithCountdown that the reader
\* specification explores, in milliseconds.
TestCountdown == 25

\* Calls of a reader that the reader specification explores.
MaxCalls == 2

\* Number of lives at the start of a session.
StartLives == 3

\* Values of enum GameMode.
CLASSIC == 0
SPEED == 1
REVERSE == 2
STEALTH == 3

GameModes == {CLASSIC, SPEED, REVERSE, STEALTH}

\* The four buttons / LEDs / colour indices (ledPins, buttonPins).
Colours == 0..3

\* Contents of the high-score cell found at power-up in the game runs that
\* are explored: erased, and a score stored by an earlier session.
InitHighScores == {255, 3}

VARIABLES
  pc,            \* position of the thread of control
  Level,         \* byte Level
  lives,         \* byte lives
  gameSequence,  \* byte gameSequence[MAX_GAME_LENGTH]
  currentMode,   \* GameMode currentMode
  isMuted,       \* bool isMuted
  eeprom,        \* EEPROM cell at highScoreAddress
  i,             \* loop index of checkUserSequence
  ok,            \* value returned by checkUserSequence
  cues,          \* what playSequence rendered in this round
  gap,           \* pause after each cue of playSequence in this round
  echoes,        \* what checkUserSequence echoed in this round
  inputs,        \* values the reader returned in this round
  wrIdx,         \* index of gameSequence written by the last round start
  rdIdx,         \* indices of gameSequence read in this round
  written,       \* indices of gameSequence written so far
  clamped,       \* the last round start took the clamp branch
  rounds,        \* rounds started so far
  fails,         \* verifications that returned false so far
  wins,          \* verifications that returned true so far
  shownScore,    \* score printed by showGameOver
  shownHigh,     \* high score printed by showGameOver
  hsArg,         \* argument of the last call of updateHighScore
  hsBefore,      \* cell contents before the last call of updateHighScore
  hsWrote,       \* the last call of updateHighScore wrote the cell
  gameOvers,     \* completed runs of the game-over sequence
  lives0,        \* lives when the current round started
  rpc,           \* position inside the reader being executed
  rkind,         \* the reader called: "debounced" or "countdown"
  rcount,        \* countdownTime of the call
  ri,            \* index i of the for loop of the reader
  rwait,         \* milliseconds left of the delay() being executed
  elapsed,       \* millis() - start of the call (saturating)
  passStart,     \* elapsed when the current pass of the loop began
  closed,        \* buttons whose contact is closed (pin LOW)
  sincePoll,     \* milliseconds since the poll that began the debounce
  heldThrough,   \* button ri has stayed closed ever since that poll
  fresh,         \* buttons closed anew since their last accepted press
  accepted,      \* a press has passed the re-poll in this call
  ret,           \* value the last call returned
  calls          \* calls of a reader so far

gvars == <<pc, Level, lives, gameSequence, currentMode, isMuted, eeprom, i, ok,
          cues, gap, echoes, inputs, wrIdx, rdIdx, written, clamped, rounds,
          fails, wins, shownScore, shownHigh, hsArg, hsBefore, hsWrote,
          gameOvers, lives0>>

\* State of the Input Reader and of the buttons.
reader == <<rpc, rkind, rcount, ri, rwait, elapsed, passStart, closed,
            sincePoll, heldThrough, fresh, accepted, ret, calls>>

vars == <<gvars, reader>>

\* The rules state of the game.
game == <<Level, lives, gameSequence, currentMode, eeprom>>

\* History of the session (not program state).
hist == <<rounds, fails, wins, written, wrIdx, clamped, lives0>>

\* Records of the current round.
roundRec == <<i, ok, cues, gap, echoes, inputs, rdIdx>>

\* Records of the game-over sequence.
overRec == <<shownScore, shownHigh, hsArg, hsBefore, hsWrote, gameOvers>>

\* "No value yet" of a record of the model.
None == 0 - 1

Max(a, b) == IF a > b THEN a ELSE b

Min(a, b) == IF a < b THEN a ELSE b

\* Conversion of an int to byte.
ToByte(n) == n % ByteMod

(* ---------------------------------------------------------------------- *)
(* Initial state: the globals as initialised at lines 41-49                *)
(* ---------------------------------------------------------------------- *)

\* No reader has been called, no button is pressed.
ReaderIdle ==
  /\ rpc = "idle"
  /\ rkind = "none"
  /\ rcount = 0
  /\ ri = 0
  /\ rwait = 0
  /\ elapsed = 0
  /\ passStart = 0
  /\ closed = {}
  /\ sincePoll = 0
  /\ heldThrough = FALSE
  /\ fresh = {}
  /\ accepted = FALSE
  /\ ret = None
  /\ calls = 0

Init ==
  /\ pc = "checkForMuteToggle"
  /\ Level = 0
  /\ lives = StartLives
  /\ gameSequence = [k \in 0..(MAX_GAME_LENGTH - 1) |-> 0]
  /\ currentMode = CLASSIC
  /\ isMuted = FALSE
  /\ eeprom \in InitHighScores
  /\ i = 0
  /\ ok = TRUE
  /\ cues = <<>>
  /\ gap = 0
  /\ echoes = <<>>
  /\ inputs = <<>>
  /\ wrIdx = None
  /\ rdIdx = {}
  /\ written = {}
  /\ clamped = FALSE
  /\ rounds = 0
  /\ fails = 0
  /\ wins = 0
  /\ shownScore = None
  /\ shownHigh = None
  /\ hsArg = None
  /\ hsBefore = None
  /\ hsWrote = FALSE
  /\ gameOvers = 0
  /\ lives0 = StartLives
  /\ ReaderIdle

(* ---------------------------------------------------------------------- *)
(* Cue Player: lightLedAndPlayTone, playToneOnly, playSequence             *)
(* ---------------------------------------------------------------------- *)

\* lightLedAndPlayTone(idx): the LED of idx is on for 300 ms, with the tone
\* unless muted.
LightLedAndPlayTone(idx) ==
  [idx |-> idx, light |-> TRUE, tone |-> ~isMuted, ms |-> 300]

\* playToneOnly(idx): the tone for 300 ms unless muted, no LED.
PlayToneOnly(idx) ==
  [idx |-> idx, light |-> FALSE, tone |-> ~isMuted, ms |-> 300]

\* Body of the loop of playSequence for one element.
PlayCue(current) ==
  IF currentMode = STEALTH
    THEN IF ~isMuted
           THEN [idx |-> current, light |-> FALSE, tone |-> TRUE, ms |-> 300]
           ELSE [idx |-> current, light |-> FALSE, tone |-> FALSE, ms |-> 300]
    ELSE LightLedAndPlayTone(current)

\* Mutant of Speed: the floor of 100 ms is missing.
Speed_NoFloor(L) == 400 - L * 10

\* int speed = max(100, 400 - Level * 10)
Speed(L) == Max(100, 400 - L * 10)

\* playSequence(): Level cues, gameSequence[0] first.
PlaySequence ==
  /\ pc = "playSequence"
  /\ UNCHANGED reader
  /\ gap' = Speed(Level)
  /\ cues' = [k \in 1..Level |-> PlayCue(gameSequence[k - 1])]
  /\ rdIdx' = 0..(Level - 1)
  /\ i' = 0
  /\ pc' = "checkUserSequence"
  /\ UNCHANGED <<game, isMuted, hist, overRec, ok, echoes, inputs>>

(* ---------------------------------------------------------------------- *)
(* Input Reader                                                            *)
(* ---------------------------------------------------------------------- *)

\* Mutant of ReadButtonsDebounced: the blocking reader can time out.
ReadButtonsDebounced_Timeout == Colours \cup {Sentinel}

\* Values readButtonsDebounced() can return: the index of its for loop.
ReadButtonsDebounced == Colours

\* Mutant of ReadButtonsWithCountdown: return 255 is missing.
ReadButtonsWithCountdown_NoTimeout(countdownTime) == Colours

\* Values readButtonsWithCountdown(countdownTime) can return: the index of
\* its for loop, or 255 when the while loop ends.
ReadButtonsWithCountdown(countdownTime) == Colours \cup {Sentinel}

\* The reader checkUserSequence calls (line 209).
ReadActual ==
  IF currentMode = SPEED
    THEN ReadButtonsWithCountdown(CountdownTime)
    ELSE ReadButtonsDebounced

(* ---------------------------------------------------------------------- *)
(* checkUserSequence                                                       *)
(* ---------------------------------------------------------------------- *)

\* Mutant of ExpectedIndex: the Reverse branch is missing.
ExpectedIndex_Forward(k) == k

\* Index of gameSequence that step k of the verification reads (line 207).
ExpectedIndex(k) ==
  IF currentMode = REVERSE THEN Level - 1 - k ELSE k

Expected(k) == gameSequence[ExpectedIndex(k)]

\* The test of line 210.
Rejected(expected, actual) == actual = Sentinel \/ expected # actual

\* Mutant of Echo: the Stealth branch is missing.
Echo_AlwaysLight(actual) == LightLedAndPlayTone(actual)

\* Echo of an accepted step (lines 214-218).
Echo(actual) ==
  IF currentMode = STEALTH
    THEN PlayToneOnly(actual)
    ELSE LightLedAndPlayTone(actual)

\* Mutant of Decrement: a failure costs two lives.
Decrement_Twice(l) == ToByte(l - 2)

\* lives-- on a byte (line 211).
Decrement(l) == ToByte(l - 1)

\* One iteration of the for loop of checkUserSequence: a read, the test, and
\* either lives-- and return false, or the echo.
CheckStep(actual) ==
  /\ pc = "checkUserSequence"
  /\ UNCHANGED reader
  /\ i < Level
  /\ actual \in ReadActual
  /\ inputs' = Append(inputs, actual)
  /\ rdIdx' = rdIdx \cup {ExpectedIndex(i)}
  /\ IF Rejected(Expected(i), actual)
       THEN /\ lives' = Decrement(lives)
            /\ ok' = FALSE
            /\ fails' = fails + 1
            /\ pc' = "report"
            /\ UNCHANGED <<i, echoes>>
       ELSE /\ echoes' = Append(echoes, Echo(actual))
            /\ i' = i + 1
            /\ UNCHANGED <<lives, ok, fails, pc>>
  /\ UNCHANGED <<Level, gameSequence, currentMode, eeprom, isMuted, cues, gap,
                 rounds, wins, written, wrIdx, clamped, lives0, overRec>>

\* Mutant of CheckDone: a successful verification advances Level itself.
CheckDone_LevelUp ==
  /\ pc = "checkUserSequence"
  /\ UNCHANGED reader
  /\ ~(i < Level)
  /\ ok' = TRUE
  /\ wins' = wins + 1
  /\ Level' = ToByte(Level + 1)
  /\ pc' = "report"
  /\ UNCHANGED <<lives, gameSequence, currentMode, eeprom, isMuted, i, cues,
                 gap, echoes, inputs, rdIdx, rounds, fails, written, wrIdx,
                 clamped, lives0, overRec>>

\* The for loop of checkUserSequence ends: return true.
CheckDone ==
  /\ pc = "checkUserSequence"
  /\ UNCHANGED reader
  /\ ~(i < Level)
  /\ ok' = TRUE
  /\ wins' = wins + 1
  /\ pc' = "report"
  /\ UNCHANGED <<game, isMuted, i, cues, gap, echoes, inputs, rdIdx, rounds,
                 fails, written, wrIdx, clamped, lives0, overRec>>

(* ---------------------------------------------------------------------- *)
(* High Score Store                                                        *)
(* ---------------------------------------------------------------------- *)

\* Mutant of UpdateWrites: the test for the erased cell is missing.
UpdateWrites_NoSentinel(currentHigh, score) == score > currentHigh

\* The test of line 226: updateHighScore writes the cell.
UpdateWrites(currentHigh, score) ==
  currentHigh = Sentinel \/ score > currentHigh

\* Mutant of UpdateHighScore: EEPROM.write is missing.
UpdateHighScore_Keep(currentHigh, score) == currentHigh

\* updateHighScore(score): the contents of the cell afterwards, given its
\* contents before.
UpdateHighScore(currentHigh, score) ==
  IF UpdateWrites(currentHigh, score) THEN score ELSE currentHigh

(* ---------------------------------------------------------------------- *)
(* showGameOver                                                            *)
(* ---------------------------------------------------------------------- *)

\* Mutant of ShowGameOverExit: showGameOver returns to loop().
ShowGameOverExit_Return == "startRound"

\* Where control is after showGameOver's last statement, while (true);
ShowGameOverExit == "halted"

\* Mutant of FinalScore: the score is Level.
FinalScore_Level == Level

\* The score of the session: Level - 1, an int.
FinalScore == Level - 1

\* showGameOver(): print the score, update and print the high score, halt.
ShowGameOver ==
  /\ pc = "showGameOver"
  /\ UNCHANGED reader
  /\ shownScore' = FinalScore
  /\ hsArg' = ToByte(FinalScore)
  /\ hsBefore' = eeprom
  /\ hsWrote' = UpdateWrites(eeprom, ToByte(FinalScore))
  /\ eeprom' = UpdateHighScore(eeprom, ToByte(FinalScore))
  /\ shownHigh' = eeprom'
  /\ gameOvers' = gameOvers + 1
  /\ pc' = ShowGameOverExit
  /\ UNCHANGED <<Level, lives, gameSequence, currentMode, isMuted, hist,
                 roundRec>>

(* ---------------------------------------------------------------------- *)
(* setup                                                                   *)
(* ---------------------------------------------------------------------- *)

\* checkForMuteToggle(): muted when the green button is held.
CheckForMuteToggle(greenHeld) ==
  /\ pc = "checkForMuteToggle"
  /\ UNCHANGED reader
  /\ isMuted' = (greenHeld \/ isMuted)
  /\ pc' = "resetCheck"
  /\ UNCHANGED <<game, hist, roundRec, overRec>>

\* Lines 360-367: the reset button writes 0 to the high-score cell.
ResetCheck(resetHeld) ==
  /\ pc = "resetCheck"
  /\ UNCHANGED reader
  /\ eeprom' = IF resetHeld THEN 0 ELSE eeprom
  /\ pc' = "showModeSelection"
  /\ UNCHANGED <<Level, lives, gameSequence, currentMode, isMuted, hist,
                 roundRec, overRec>>

\* showModeSelection(): the button pressed is the mode.
ShowModeSelection(button) ==
  /\ pc = "showModeSelection"
  /\ UNCHANGED reader
  /\ currentMode' = button
  /\ pc' = "loop"
  /\ UNCHANGED <<Level, lives, gameSequence, eeprom, isMuted, hist, roundRec,
                 overRec>>

(* ---------------------------------------------------------------------- *)
(* loop                                                                    *)
(* ---------------------------------------------------------------------- *)

\* Mutant of LivesExhausted: the game ends with a life left.
LivesExhausted_Early == lives <= 1

\* Mutant of LivesExhausted: < for ==, never true of a byte.
LivesExhausted_Negative == lives < 0

\* The test of line 376.
LivesExhausted == lives = 0

\* Line 376: if (lives == 0) showGameOver();
LoopCheck ==
  /\ pc = "loop"
  /\ UNCHANGED reader
  /\ pc' = IF LivesExhausted THEN "showGameOver" ELSE "startRound"
  /\ UNCHANGED <<game, isMuted, hist, roundRec, overRec>>

\* Mutant of ClampNeeded: > for >=.
ClampNeeded_Late(L) == L > MAX_GAME_LENGTH

\* Mutant of ClampNeeded: the clamp is taken one level early.
ClampNeeded_Early(L) == L >= MAX_GAME_LENGTH - 1

\* Line 380: if (Level >= MAX_GAME_LENGTH) Level = MAX_GAME_LENGTH - 1;
ClampNeeded(L) == L >= MAX_GAME_LENGTH

Clamp(L) == IF ClampNeeded(L) THEN MAX_GAME_LENGTH - 1 ELSE L

\* Mutant of Increment: Level++ is missing.
Increment_Missing(L) == L

\* Level++ on a byte (line 379).
Increment(L) == ToByte(L + 1)

\* Mutant of ExtendIndex: the new element replaces the last one.
ExtendIndex_Prev == Max(Level - 1, 0)

\* The index line 378 writes.
ExtendIndex == Level

\* Lines 378-380: gameSequence[Level] = random(0, 4); Level++; clamp.
StartRound(r) ==
  /\ pc = "startRound"
  /\ UNCHANGED reader
  /\ wins < MaxWins
  /\ r \in Colours
  /\ gameSequence' = [gameSequence EXCEPT ![ExtendIndex] = r]
  /\ wrIdx' = ExtendIndex
  /\ written' = written \cup {ExtendIndex}
  /\ lives0' = lives
  /\ clamped' = ClampNeeded(Increment(Level))
  /\ Level' = Clamp(Increment(Level))
  /\ rounds' = rounds + 1
  /\ i' = 0
  /\ cues' = <<>>
  /\ echoes' = <<>>
  /\ inputs' = <<>>
  /\ rdIdx' = {}
  /\ pc' = "playSequence"
  /\ UNCHANGED <<lives, currentMode, eeprom, isMuted, fails, wins, ok, gap,
                 overRec>>

\* Mutant of Report: the score so far is saved after every round.
Report_SavesScore ==
  /\ pc = "report"
  /\ UNCHANGED reader
  /\ pc' = "loop"
  /\ i' = 0
  /\ cues' = <<>>
  /\ echoes' = <<>>
  /\ inputs' = <<>>
  /\ rdIdx' = {}
  /\ ok' = TRUE
  /\ gap' = 0
  /\ lives0' = lives
  /\ eeprom' = ToByte(Level - 1)
  /\ UNCHANGED <<Level, lives, gameSequence, currentMode, isMuted, rounds,
                 fails, wins, written, wrIdx, clamped, overRec>>

\* Lines 385-412: "Wrong!" / "Correct!" and the status screen; loop() returns.
Report ==
  /\ pc = "report"
  /\ UNCHANGED reader
  /\ pc' = "loop"
  /\ i' = 0
  /\ cues' = <<>>
  /\ echoes' = <<>>
  /\ inputs' = <<>>
  /\ rdIdx' = {}
  /\ ok' = TRUE
  /\ gap' = 0
  /\ lives0' = lives
  /\ UNCHANGED <<game, isMuted, rounds, fails, wins, written, wrIdx, clamped,
                 overRec>>

Next ==
  \/ \E greenHeld \in BOOLEAN : CheckForMuteToggle(greenHeld)
  \/ \E resetHeld \in BOOLEAN : ResetCheck(resetHeld)
  \/ \E button \in Colours : ShowModeSelection(button)
  \/ LoopCheck
  \/ ShowGameOver
  \/ \E r \in Colours : StartRound(r)
  \/ PlaySequence
  \/ \E actual \in ReadActual : CheckStep(actual)
  \/ CheckDone
  \/ Report

Spec == Init /\ [][Next]_vars

(* ---------------------------------------------------------------------- *)
(* updateHighScore as a function of the cell and its argument: the cell    *)
(* holds any byte and the argument is any byte.                            *)
(* ---------------------------------------------------------------------- *)

InitHS ==
  /\ pc = "updateHighScore"
  /\ Level = 0
  /\ lives = StartLives
  /\ gameSequence = [k \in 0..(MAX_GAME_LENGTH - 1) |-> 0]
  /\ currentMode = CLASSIC
  /\ isMuted = FALSE
  /\ eeprom \in 0..(ByteMod - 1)
  /\ i = 0
  /\ ok = TRUE
  /\ cues = <<>>
  /\ gap = 0
  /\ echoes = <<>>
  /\ inputs = <<>>
  /\ wrIdx = None
  /\ rdIdx = {}
  /\ written = {}
  /\ clamped = FALSE
  /\ rounds = 0
  /\ fails = 0
  /\ wins = 0
  /\ shownScore = None
  /\ shownHigh = None
  /\ hsArg = None
  /\ hsBefore = None
  /\ hsWrote = FALSE
  /\ gameOvers = 0
  /\ lives0 = StartLives
  /\ ReaderIdle

\* One call updateHighScore(score).
UpdateCall(score) ==
  /\ pc = "updateHighScore"
  /\ UNCHANGED reader
  /\ hsArg' = score
  /\ hsBefore' = eeprom
  /\ hsWrote' = UpdateWrites(eeprom, score)
  /\ eeprom' = UpdateHighScore(eeprom, score)
  /\ pc' = "updateHighScoreDone"
  /\ UNCHANGED <<Level, lives, gameSequence, currentMode, isMuted, hist,
                 roundRec, shownScore, shownHigh, gameOvers>>

NextHS == \E score \in 0..(ByteMod - 1) : UpdateCall(score)

SpecHS == InitHS /\ [][NextHS]_vars

(* ---------------------------------------------------------------------- *)
(* playSequence as a function of Level, the sequence, the mode and the     *)
(* mute flag: Level is any byte from 1, the sequence one of a family of    *)
(* patterns of that length.                                                *)
(* ---------------------------------------------------------------------- *)

\* The sequence whose element k is (a * k + b) mod 4.
Pattern(L, a, b) == [k \in 0..(L - 1) |-> (a * k + b) % 4]

InitPlay ==
  /\ pc = "playSequence"
  /\ Level \in 1..(ByteMod - 1)
  /\ lives = StartLives
  /\ \E a \in Colours, b \in Colours : gameSequence = Pattern(Level, a, b)
  /\ currentMode \in GameModes
  /\ isMuted \in BOOLEAN
  /\ eeprom = Sentinel
  /\ i = 0
  /\ ok = TRUE
  /\ cues = <<>>
  /\ gap = 0
  /\ echoes = <<>>
  /\ inputs = <<>>
  /\ wrIdx = None
  /\ rdIdx = {}
  /\ written = {}
  /\ clamped = FALSE
  /\ rounds = 0
  /\ fails = 0
  /\ wins = 0
  /\ shownScore = None
  /\ shownHigh = None
  /\ hsArg = None
  /\ hsBefore = None
  /\ hsWrote = FALSE
  /\ gameOvers = 0
  /\ lives0 = StartLives
  /\ ReaderIdle

NextPlay == PlaySequence

SpecPlay == InitPlay /\ [][NextPlay]_vars

(* ---------------------------------------------------------------------- *)
(* readButtonsDebounced and readButtonsWithCountdown step by step, against *)
(* buttons that open and close at any moment.  Time advances in            *)
(* milliseconds while the reader sits in a delay() or spins in the release *)
(* loop; every other statement takes no time.  The game itself stands      *)
(* still: the reader neither reads nor writes its variables.               *)
(* ---------------------------------------------------------------------- *)

Readers == {"debounced", "countdown"}

\* elapsed saturates here: past the largest value a call can reach without
\* waiting for a release.
ElapsedCap == TestCountdown + 4 * DebounceMs + 2 * CountdownPollMs

InCall == rpc \in {"while", "for", "debounce", "release", "delay"}

InitReader == Init /\ eeprom = Sentinel

\* Entry of a reader; line 176: start = millis().
ReaderCall(kind, countdownTime) ==
  /\ rpc \in {"idle", "returned"}
  /\ calls < MaxCalls
  /\ rpc' = "while"
  /\ rkind' = kind
  /\ rcount' = countdownTime
  /\ elapsed' = 0
  /\ passStart' = 0
  /\ ri' = 0
  /\ rwait' = 0
  /\ sincePoll' = 0
  /\ heldThrough' = FALSE
  /\ accepted' = FALSE
  /\ ret' = None
  /\ calls' = calls + 1
  /\ UNCHANGED <<closed, fresh, gvars>>

\* Lines 161 and 178: while (true) / while (millis() - start < countdownTime).
DeadlinePassed_Never == FALSE

DeadlinePassed == rkind = "countdown" /\ ~(elapsed < rcount)

\* Top of the loop: leave with the sentinel (line 201) or begin a pass.
WhileTest ==
  /\ rpc = "while"
  /\ IF DeadlinePassed
     THEN /\ rpc' = "returned"
          /\ ret' = Sentinel
          /\ UNCHANGED <<ri, passStart>>
     ELSE /\ rpc' = "for"
          /\ ri' = 0
          /\ passStart' = elapsed
          /\ ret' = ret
  /\ UNCHANGED <<rkind, rcount, rwait, elapsed, closed, sincePoll, heldThrough, fresh, accepted, calls, gvars>>

\* Lines 163-164 and 191-192: digitalRead(buttonPins[i]) == LOW, delay(20).
ForPoll ==
  /\ rpc = "for"
  /\ ri < 4
  /\ IF ri \in closed
     THEN /\ rpc' = "debounce"
          /\ rwait' = DebounceMs
          /\ sincePoll' = 0
          /\ heldThrough' = TRUE
          /\ ri' = ri
     ELSE /\ ri' = ri + 1
          /\ UNCHANGED <<rpc, rwait, sincePoll, heldThrough>>
  /\ UNCHANGED <<rkind, rcount, elapsed, passStart, closed, fresh, accepted,
                 ret, calls, gvars>>

\* Delay that ends a pass: line 171 (delay(1)) and line 199 (delay(10)).
PollDelay(kind) == IF kind = "countdown" THEN CountdownPollMs ELSE BlockingPollMs

\* End of the for loop: lines 171 and 199.
ForEnd ==
  /\ rpc = "for"
  /\ ri = 4
  /\ rpc' = "delay"
  /\ rwait' = PollDelay(rkind)
  /\ UNCHANGED <<rkind, rcount, ri, elapsed, passStart, closed, sincePoll, heldThrough, fresh, accepted, ret, calls, gvars>>

\* Lines 165 and 193: the second digitalRead(buttonPins[i]) == LOW.
StillClosed_Skip(b) == TRUE

StillClosed(b) == b \in closed

\* After delay(20): accept the press and wait for the release, or go on
\* with the next button.
Repoll ==
  /\ rpc = "debounce"
  /\ rwait = 0
  /\ IF StillClosed(ri)
     THEN /\ rpc' = "release"
          /\ accepted' = TRUE
          /\ fresh' = fresh \ {ri}
          /\ ri' = ri
     ELSE /\ rpc' = "for"
          /\ ri' = ri + 1
          /\ UNCHANGED <<accepted, fresh>>
  /\ UNCHANGED <<rkind, rcount, rwait, elapsed, passStart, closed, sincePoll, heldThrough, ret, calls, gvars>>

\* Lines 166-167 and 194-195: while (digitalRead(...) == LOW); return i.
Release ==
  /\ rpc = "release"
  /\ ri \notin closed
  /\ rpc' = "returned"
  /\ ret' = ri
  /\ UNCHANGED <<rkind, rcount, ri, rwait, elapsed, passStart, closed,
                 sincePoll, heldThrough, fresh, accepted, calls, gvars>>

\* The trailing delay is over: back to the top of the loop.
DelayEnd ==
  /\ rpc = "delay"
  /\ rwait = 0
  /\ rpc' = "while"
  /\ UNCHANGED <<rkind, rcount, ri, rwait, elapsed, passStart, closed,
                 sincePoll, heldThrough, fresh, accepted, ret, calls,
                 gvars>>

\* One millisecond passes inside delay() or inside the release loop.
Tick ==
  /\ \/ rpc \in {"debounce", "delay"} /\ rwait > 0
     \/ rpc = "release" /\ ri \in closed
  /\ rwait' = Max(rwait - 1, 0)
  /\ elapsed' = IF rkind = "countdown" THEN Min(elapsed + 1, ElapsedCap)
                                       ELSE elapsed
  /\ sincePoll' = IF rpc = "debounce" THEN sincePoll + 1 ELSE sincePoll
  /\ UNCHANGED <<rpc, rkind, rcount, ri, passStart, closed, heldThrough,
                 fresh, accepted, ret, calls, gvars>>

\* The player (or contact bounce) closes or opens button b.
Toggle(b) ==
  /\ closed' = IF b \in closed THEN closed \ {b} ELSE closed \cup {b}
  /\ fresh' = IF b \in closed THEN fresh ELSE fresh \cup {b}
  /\ heldThrough' = IF rpc = "debounce" /\ b = ri THEN FALSE ELSE heldThrough
  /\ UNCHANGED <<rpc, rkind, rcount, ri, rwait, elapsed, passStart, sincePoll,
                 accepted, ret, calls, gvars>>

NextReader ==
  \/ ReaderCall("debounced", 0)
  \/ ReaderCall("countdown", TestCountdown)
  \/ WhileTest
  \/ ForPoll
  \/ ForEnd
  \/ Repoll
  \/ Release
  \/ DelayEnd
  \/ Tick
  \/ \E b \in Colours : Toggle(b)

SpecReader == InitReader /\ [][NextReader]_vars

(* ---------------------------------------------------------------------- *)
(* The game with a player who presses a button to choose the mode and      *)
(* never again.  With no contact ever closed the readers accept no press:  *)
(* readButtonsWithCountdown returns 255 when its deadline has passed and   *)
(* readButtonsDebounced does not return.  Every statement of the sketch    *)
(* ends in finite time, which is the fairness assumed of the steps.        *)
(* ---------------------------------------------------------------------- *)

\* What the reader called by checkUserSequence can return to this player.
ReadActualIdle == ReadActual \ Colours

\* checkUserSequence against this player: the first iteration of its for
\* loop.  The loop is entered with i = 0 < Level and a read of 255 returns
\* from it, so the exit of the loop by i >= Level (CheckDone) is never
\* enabled here; C18 checks that.
CheckUserSequenceIdle == \E actual \in ReadActualIdle : CheckStep(actual)

NextIdle ==
  \/ \E greenHeld \in BOOLEAN : CheckForMuteToggle(greenHeld)
  \/ \E resetHeld \in BOOLEAN : ResetCheck(resetHeld)
  \/ \E button \in Colours : ShowModeSelection(button)
  \/ LoopCheck
  \/ ShowGameOver
  \/ \E r \in Colours : StartRound(r)
  \/ PlaySequence
  \/ CheckUserSequenceIdle
  \/ Report

SpecIdle == Init /\ [][NextIdle]_vars /\ WF_vars(NextIdle)

(* ====================================================================== *)
(* Properties                                                              *)
(* ====================================================================== *)

\* checkUserSequence has returned and loop() has not yet gone on.
Returned == pc = "report"

\* The game-over sequence has run.
GameIsOver == gameOvers >= 1

\* Element a player has to enter at step k (from 0) of a round, as the
\* specification states it.
Wanted(k) ==
  IF currentMode = REVERSE
    THEN gameSequence[Level - 1 - k]
    ELSE gameSequence[k]

\* The first n inputs of the round are the wanted ones.
Matched(n) ==
  \A k \in 0..(n - 1) : inputs[k + 1] # Sentinel /\ inputs[k + 1] = Wanted(k)

\* C1: checkUserSequence returns true exactly when all Level reads were made,
\* none timed out, and input i is sequence[Level-1-i] in Reverse mode and
\* sequence[i] in the other modes; it returns false exactly at the first read
\* that timed out or differs.
C1_VerifyIffAllMatch ==
  Returned =>
    /\ ok <=> (Len(inputs) = Level /\ Matched(Level))
    /\ ~ok => /\ Len(inputs) \in 1..Level
              /\ Matched(Len(inputs) - 1)
              /\ \/ inputs[Len(inputs)] = Sentinel
                 \/ inputs[Len(inputs)] # Wanted(Len(inputs) - 1)

\* C1 witness: sequence [3,1] in Reverse mode is matched by the inputs [1,3].
C1_Witness ==
  /\ Returned
  /\ ok
  /\ currentMode = REVERSE
  /\ Level = 2
  /\ gameSequence[0] = 3
  /\ gameSequence[1] = 1
  /\ inputs = <<1, 3>>

\* C2: a failed verification takes exactly one life and ends at the first
\* mismatching or timed-out step: that step is not echoed (the echoes are the
\* accepted inputs before it), nothing is read after it in the round, and
\* lives changes nowhere else in the round.
C2_FailCostsOneLife ==
  /\ [](Returned /\ ~ok =>
          /\ lives = lives0 - 1
          /\ Len(echoes) = Len(inputs) - 1
          /\ \A k \in 1..Len(echoes) : echoes[k].idx = inputs[k])
  /\ [](Returned /\ ok => lives = lives0)
  /\ [](pc \in {"playSequence", "checkUserSequence"} => lives = lives0)
  /\ [][Returned => pc' = "loop" /\ lives' = lives /\ Len(inputs') = 0]_vars
  /\ [][lives' # lives =>
          /\ lives' = lives - 1
          /\ pc = "checkUserSequence"
          /\ Returned'
          /\ ~ok']_vars

\* C2 witness: the second step of a round of three fails, after one echo.
C2_Witness ==
  /\ Returned
  /\ ~ok
  /\ Level = 3
  /\ Len(inputs) = 2
  /\ Len(echoes) = 1
  /\ lives = 1
  /\ lives0 = 2

\* C3: the game-over sequence is entered only with lives = 0, which is after
\* exactly three failed verifications; loop() called with lives = 0 enters it
\* at once, and loop() called with lives > 0 starts a round.
C3_GameOverAtThirdFail ==
  /\ [](lives = StartLives - fails)
  /\ [](pc \in {"showGameOver", "halted"} => lives = 0 /\ fails = 3)
  /\ [](pc \in {"startRound", "playSequence", "checkUserSequence"} =>
          lives0 > 0 /\ fails < 3)
  /\ [][Returned => pc' = "loop"]_vars
  /\ [][pc = "loop" /\ lives = 0 => pc' = "showGameOver"]_vars
  /\ [][pc = "loop" /\ lives > 0 => pc' = "startRound"]_vars

\* C3 witness: the third failure has been reported and the game-over sequence
\* is entered.
C3_Witness ==
  /\ pc = "showGameOver"
  /\ lives = 0
  /\ fails = 3
  /\ rounds = 3

\* C4 as claimed: the final score is the number of rounds whose verification
\* succeeded.
C4_ScoreIsRoundsWon ==
  GameIsOver => shownScore = wins

\* C4 as amended: the final score, shown and passed to updateHighScore, is
\* Level - 1, where Level is the number of rounds started (the rounds won plus
\* the three rounds lost) capped at MAX_GAME_LENGTH - 1.
C4_ScoreIsRoundsStartedLessOne ==
  GameIsOver =>
    /\ shownScore = Level - 1
    /\ hsArg = shownScore
    /\ rounds = wins + 3
    /\ shownScore = Min(rounds, MAX_GAME_LENGTH - 1) - 1

\* C4 witness: game over after one round won and three lost.
C4_Witness ==
  /\ GameIsOver
  /\ wins = 1
  /\ rounds = 4
  /\ shownScore = Level - 1
  /\ shownScore > wins

\* updateHighScore has been called.
Updated == hsBefore # None

\* C5: update(s) on a cell holding h writes s exactly when h is 255 or s > h
\* and otherwise leaves the cell as it is: afterwards a cell that held a real
\* score holds max(h, s), which is not below h, and a cell that held 255
\* holds s.
C5_UpdateMonotonic ==
  Updated =>
    /\ hsWrote <=> (hsBefore = 255 \/ hsArg > hsBefore)
    /\ hsWrote => eeprom = hsArg
    /\ ~hsWrote => eeprom = hsBefore
    /\ hsBefore # 255 => eeprom = Max(hsBefore, hsArg) /\ eeprom >= hsBefore
    /\ hsBefore = 255 => eeprom = hsArg

\* C5 witness: an erased cell takes the score 0, which is not above 255.
C5_Witness ==
  /\ Updated
  /\ hsBefore = 255
  /\ hsArg = 0
  /\ hsWrote
  /\ eeprom = 0

LastInput == inputs[Len(inputs)]

\* C7: only the reader of Speed mode yields the timeout value 255; a timeout
\* makes the verification fail at that step with one life taken, like a wrong
\* press, and loop() goes on to a new round while lives remain.
C7_TimeoutOnlyInSpeed ==
  /\ [](currentMode # SPEED =>
          \A k \in 1..Len(inputs) : inputs[k] \in Colours)
  /\ [](Len(inputs) > 0 /\ LastInput = Sentinel =>
          /\ currentMode = SPEED
          /\ Returned
          /\ ~ok
          /\ lives = lives0 - 1
          /\ Len(echoes) = Len(inputs) - 1)
  /\ [](Returned /\ ~ok /\ currentMode # SPEED =>
          LastInput # Wanted(Len(inputs) - 1))
  /\ [][Returned /\ ~ok => pc' = "loop" /\ lives' = lives]_vars
  /\ [][pc = "loop" /\ lives > 0 => pc' = "startRound" /\ lives' = lives]_vars

\* C7 witness: the first read of a round in Speed mode times out.
C7_Witness ==
  /\ currentMode = SPEED
  /\ Returned
  /\ inputs = <<Sentinel>>
  /\ ~ok
  /\ lives = 2

\* The indices of the storage gameSequence.
Storage == 0..(MAX_GAME_LENGTH - 1)

\* C8: Level never exceeds MAX_GAME_LENGTH - 1, every write of a round start
\* goes to an index of the storage, and every index playback or verification
\* reads is below Level: the storage is never accessed out of bounds.
C8_LevelWithinCapacity ==
  /\ Level \in 0..(MAX_GAME_LENGTH - 1)
  /\ wrIdx # None => wrIdx \in Storage
  /\ written \subseteq Storage
  /\ \A k \in rdIdx : k >= 0 /\ k < Level /\ k \in Storage
  /\ pc \in {"checkUserSequence", "report"} /\ Len(inputs) > 0 =>
       rdIdx = 0..(Level - 1)

\* C8 witness: a round started at the clamp has been played back and fully
\* verified; the write went to the last index of the storage.
C8_Witness ==
  /\ Returned
  /\ ok
  /\ clamped
  /\ wrIdx = MAX_GAME_LENGTH - 1
  /\ Level = MAX_GAME_LENGTH - 1
  /\ rdIdx = 0..(Level - 1)
  /\ Len(inputs) = Level

\* C9 as claimed: a position a round start has written keeps its value in
\* every later step.
C9_WrittenNeverChanges ==
  [][\A k \in written : gameSequence'[k] = gameSequence[k]]_vars

\* C9 as amended: the positions below Level, which are the ones playback and
\* verification read, keep their values for the rest of the session; the only
\* position ever rewritten is the last one, MAX_GAME_LENGTH - 1, by the round
\* starts after the one that first clamped Level, and it is never below Level.
C9_PresentedPrefixAppendOnly ==
  /\ [][\A k \in 0..(Level - 1) :
          k \in written /\ gameSequence'[k] = gameSequence[k]]_vars
  /\ [][\A k \in written :
          gameSequence'[k] # gameSequence[k] =>
            /\ k = MAX_GAME_LENGTH - 1
            /\ k >= Level'
            /\ clamped
            /\ clamped'
            /\ Level' = Level]_vars
  /\ [][clamped => clamped' /\ Level' = Level]_vars

\* C9 witness: a round start at the clamp has written the last position, which
\* the round start before it had written already.
C9_Witness ==
  /\ pc = "playSequence"
  /\ clamped
  /\ rounds = MAX_GAME_LENGTH + 1
  /\ wrIdx = MAX_GAME_LENGTH - 1
  /\ gameSequence[MAX_GAME_LENGTH - 1] # 0

\* A round start has finished and the session is past setup.
RoundStarted == rounds >= 1

\* C10 as claimed: after every round start the number of positions written
\* equals Level.
C10_WrittenEqualsLevel ==
  RoundStarted => Cardinality(written) = Level

\* C10 as amended: the positions written are 0 .. rounds-1, capped at the
\* capacity; their number equals Level after every round start that did not
\* clamp, and is Level + 1 = MAX_GAME_LENGTH from the first clamping round
\* start on.
C10_WrittenEqualsLevelUntilClamp ==
  /\ written = 0..(Min(rounds, MAX_GAME_LENGTH) - 1)
  /\ Level = Min(rounds, MAX_GAME_LENGTH - 1)
  /\ RoundStarted /\ ~clamped => Cardinality(written) = Level
  /\ clamped =>
       /\ Cardinality(written) = Level + 1
       /\ Cardinality(written) = MAX_GAME_LENGTH
       /\ rounds >= MAX_GAME_LENGTH

\* C10 witness: the first round start that clamps has run.
C10_Witness ==
  /\ pc = "playSequence"
  /\ clamped
  /\ rounds = MAX_GAME_LENGTH
  /\ Cardinality(written) = Level + 1

\* A round start: the step of lines 378-380.
RoundStart == pc = "startRound" /\ pc' = "playSequence"

\* C11: a round start with Level below its clamp, after a verification that
\* succeeded or failed alike, makes Level exactly Level + 1 and leaves every
\* element presented before as it was, followed by one new element in 0..3;
\* what playback then presents is that sequence.
C11_FailKeepsSequence ==
  /\ [][RoundStart /\ Level < MAX_GAME_LENGTH - 1 =>
          /\ Level' = Level + 1
          /\ \A k \in 0..(Level - 1) : gameSequence'[k] = gameSequence[k]
          /\ gameSequence'[Level] \in Colours
          /\ wrIdx' = Level]_vars
  /\ [](pc = "checkUserSequence" =>
          /\ Len(cues) = Level
          /\ \A k \in 1..Level : cues[k].idx = gameSequence[k - 1])
  /\ [][pc # "startRound" => Level' = Level /\ gameSequence' = gameSequence]_vars

\* C11 witness: the round after a failed one has been started, one element
\* longer.
C11_Witness ==
  /\ pc = "playSequence"
  /\ fails = 1
  /\ wins = 0
  /\ rounds = 2
  /\ Level = 2
  /\ written = {0, 1}

\* The pause playSequence is to make after each cue at level L, as the
\* specification states it.
WantedGap(L) == IF L >= 30 THEN 100 ELSE 400 - 10 * L

\* C12: playSequence emits exactly Level cues, cue k being sequence[k] in
\* forward order in every mode, with a pause of max(100, 400 - 10 * Level) ms:
\* 10 ms less per level, 100 ms from level 30 on, never below 100 ms.
C12_PlaybackCuesAndGap ==
  pc = "checkUserSequence" =>
    /\ Len(cues) = Level
    /\ \A k \in 0..(Level - 1) : cues[k + 1].idx = gameSequence[k]
    /\ gap = WantedGap(Level)
    /\ gap >= 100
    /\ Level < 30 => gap = WantedGap(Level + 1) + 10

\* C12 witness: thirty cues played in Reverse mode, in forward order, with
\* the pause at its floor.
C12_Witness ==
  /\ pc = "checkUserSequence"
  /\ currentMode = REVERSE
  /\ Level = 30
  /\ Len(cues) = 30
  /\ gameSequence = Pattern(30, 1, 0)
  /\ cues[2].idx = 1
  /\ gap = 100

(* ---------------------------------------------------------------------- *)
(* Input Reader: debounce and deadline                                     *)
(* ---------------------------------------------------------------------- *)

\* The step on which a reader accepts a press: the re-poll found the
\* button closed.
Accept == rpc = "debounce" /\ rpc' = "release"

\* The step on which a reader returns a button index.
ReturnPress == rpc # "returned" /\ rpc' = "returned" /\ ret' # Sentinel

\* C13: in both readers a button is accepted only if it was seen closed at
\* a poll and is seen closed again at the re-poll 20 ms later, so a closure
\* that lasted through the debounce lasted at least 20 ms; the accepted
\* button had been closed anew since its previous accepted press; the call
\* returns exactly that button, and only on a step at which the button is
\* open again.
C13_DebouncedPress ==
  /\ [][Accept =>
          /\ ri \in closed
          /\ sincePoll = DebounceMs
          /\ ri \in fresh
          /\ accepted']_vars
  /\ [][ReturnPress =>
          /\ rpc = "release"
          /\ accepted
          /\ ret' = ri
          /\ ri \notin closed]_vars
  /\ [](rpc = "debounce" /\ heldThrough => ri \in closed)
  /\ [](rpc = "release" => accepted /\ sincePoll = DebounceMs)

\* Second call of the blocking reader returned button 2 after a closure
\* that lasted through the whole debounce interval and was then released,
\* while button 0 is open and has not been pressed again.
C13_Witness ==
  /\ rpc = "returned"
  /\ rkind = "debounced"
  /\ calls = 2
  /\ ret = 2
  /\ heldThrough
  /\ sincePoll = DebounceMs
  /\ closed = {}
  /\ fresh = {}

\* Longest time a call of readButtonsWithCountdown can spend outside the
\* release loop beyond its deadline: one pass of the loop, four debounce
\* delays and the trailing delay.
PassMs == 4 * DebounceMs + CountdownPollMs

CountdownCall == rkind = "countdown"

\* C14 as stated: a call of readButtonsWithCountdown never stays in progress
\* past its deadline (one pass of the polling loop allowed for), whatever
\* the buttons do.
C14_ReturnsByDeadline ==
  CountdownCall /\ InCall => elapsed <= rcount + PassMs

\* C14, amended: the wait for a press is bounded by the deadline plus one
\* pass of the loop, and only the wait for the release of an accepted
\* button can last longer; the call returns 255 only at or after the
\* deadline and only if no press was accepted; a button index is returned
\* only for a press accepted in a pass that began before the deadline.
C14_DeadlineBoundsWaitForPress ==
  /\ CountdownCall /\ InCall /\ rpc # "release" => elapsed <= rcount + PassMs
  /\ CountdownCall /\ rpc = "returned" /\ ret = Sentinel =>
        /\ ~accepted
        /\ elapsed >= rcount
        /\ elapsed <= rcount + PassMs
  /\ CountdownCall /\ rpc = "returned" /\ ret # Sentinel =>
        /\ accepted
        /\ ret \in Colours
        /\ passStart < rcount
  /\ CountdownCall /\ rpc \in {"for", "debounce", "delay"} => passStart < rcount

\* A call of readButtonsWithCountdown returned button 1 after the player
\* held it far beyond the deadline.
C14_Witness ==
  /\ CountdownCall
  /\ rpc = "returned"
  /\ ret = 1
  /\ accepted
  /\ elapsed > rcount + PassMs
  /\ closed = {}

(* ---------------------------------------------------------------------- *)
(* High-score cell, verification, cues, lives and the submitted score      *)
(* ---------------------------------------------------------------------- *)

\* Positions of loop() and of the functions it calls, showGameOver excepted.
RoundPositions ==
  {"loop", "startRound", "playSequence", "checkUserSequence", "report"}

\* C15: the high-score cell changes only on the reset step of setup(), which
\* writes 0 and precedes mode selection, and on the one call of showGameOver,
\* which writes Level - 1; no step of a round changes it.
C15_StoreWrittenOnlyAtResetAndGameOver ==
  /\ [][eeprom' # eeprom =>
          (\/ pc = "resetCheck" /\ eeprom' = 0 /\ pc' = "showModeSelection"
           \/ pc = "showGameOver" /\ gameOvers = 0 /\ eeprom' = ToByte(Level - 1))
       ]_vars
  /\ [][(pc \in RoundPositions) => eeprom' = eeprom]_vars
  /\ [](gameOvers <= 1)

\* The reset wrote 0 at boot, three rounds were lost, and the update at
\* game over replaced the 0 by the score 2.
C15_Witness ==
  /\ pc = "halted"
  /\ hsBefore = 0
  /\ hsWrote
  /\ eeprom = 2
  /\ wins = 0
  /\ fails = 3

\* C16: no step of checkUserSequence changes Level, the sequence, the mode,
\* the mute flag or the high-score cell; lives changes only on the step that
\* returns false, by one; after a return of true lives is what it was when
\* the round started, and Level changes only at the next round start, by one
\* below the clamp.
C16_VerificationFrame ==
  /\ [][pc = "checkUserSequence" =>
          /\ Level' = Level
          /\ gameSequence' = gameSequence
          /\ currentMode' = currentMode
          /\ isMuted' = isMuted
          /\ eeprom' = eeprom
          /\ (lives' # lives => pc' = "report" /\ ~ok' /\ lives' = lives - 1)
          /\ (pc' = "report" /\ ok' => lives' = lives)
       ]_vars
  /\ [](Returned /\ ok => lives = lives0)
  /\ [][Level' # Level => pc = "startRound" /\ Level' = Level + 1]_vars

\* A round of Level 3 in Classic mode was verified with no life lost so
\* far; Level is still 3.
C16_Witness ==
  /\ Returned
  /\ ok
  /\ currentMode = CLASSIC
  /\ Level = 3
  /\ Len(echoes) = 3
  /\ lives = StartLives
  /\ wins = 3

\* A cue rendered as the current mode and mute flag demand.
Rendered(cue) ==
  /\ cue.ms = 300
  /\ cue.light = (currentMode # STEALTH)
  /\ cue.tone = ~isMuted

\* C17: every playback cue and every echo lasts 300 ms, has the light on
\* exactly when the mode is not Stealth and the tone on exactly when not
\* muted; playback cue k is for gameSequence[k]; there is one echo per
\* accepted step, with the index read at that step, and a rejected input is
\* not echoed.
C17_StealthNeverLights ==
  /\ \A k \in 1..Len(cues) : Rendered(cues[k]) /\ cues[k].idx = gameSequence[k - 1]
  /\ \A k \in 1..Len(echoes) : Rendered(echoes[k]) /\ echoes[k].idx = inputs[k]
  /\ pc \in {"checkUserSequence", "report"} =>
        /\ Len(cues) = Level
        /\ Len(echoes) = i
        /\ Len(inputs) = IF pc = "report" /\ ~ok THEN i + 1 ELSE i

\* A muted Stealth round of two steps was entered correctly: both echoes
\* and both cues were silent waits with no light.
C17_Witness ==
  /\ Returned
  /\ ok
  /\ currentMode = STEALTH
  /\ isMuted
  /\ Level = 2
  /\ Len(echoes) = 2
  /\ ~echoes[2].light
  /\ ~echoes[2].tone
  /\ ~cues[1].light

\* C18: against a player who never presses, every verification in Speed
\* mode ends on its first step with the input 255, and from the start of
\* loop() the game reaches game over, with three rounds played, Level 3,
\* no lives and the score 2.
C18_IdleSpeedGameEnds ==
  /\ [](pc = "checkUserSequence" => i = 0 /\ i < Level /\ ~ENABLED CheckDone)
  /\ [][currentMode = SPEED /\ pc = "checkUserSequence" =>
          /\ i = 0
          /\ pc' = "report"
          /\ ~ok'
          /\ inputs' = <<Sentinel>>
       ]_vars
  /\ [](currentMode = SPEED /\ GameIsOver =>
          /\ rounds = 3
          /\ Level = 3
          /\ lives = 0
          /\ wins = 0
          /\ shownScore = 2)
  /\ (currentMode = SPEED /\ pc = "loop") ~> GameIsOver

\* The Speed game of the idle player is over after three rounds.
C18_Witness ==
  /\ currentMode = SPEED
  /\ GameIsOver
  /\ pc = "halted"
  /\ rounds = 3
  /\ fails = 3
  /\ shownScore = 2

\* C19: lives is between 0 and 3 and is 3 less the failed verifications; no
\* step increases it, and a step that changes it finds it above 0 and takes
\* one off, so the byte never wraps to 255.
C19_LivesNeverWrap ==
  /\ [](lives \in 0..StartLives /\ lives = StartLives - fails)
  /\ [][lives' <= lives]_vars
  /\ [][lives' # lives => lives > 0 /\ lives' = lives - 1 /\ fails' = fails + 1]_vars
  /\ [](pc \in {"startRound", "playSequence", "checkUserSequence"} => lives > 0)

\* The third failure took the last life and the game is over.
C19_Witness ==
  /\ lives = 0
  /\ fails = 3
  /\ GameIsOver
  /\ wins = 2

\* C20: showGameOver runs with Level at least 1; the score it submits is
\* Level - 1 with no wrap, between 0 and MAX_GAME_LENGTH - 2 and so not 255,
\* and afterwards the cell does not hold 255 and holds at least the score
\* displayed.
C20_SubmittedScoreIsReal ==
  /\ pc = "showGameOver" => Level >= 1
  /\ GameIsOver =>
        /\ Level >= 1
        /\ hsArg = Level - 1
        /\ hsArg = shownScore
        /\ hsArg \in 0..(MAX_GAME_LENGTH - 2)
        /\ hsArg # Sentinel
        /\ eeprom # Sentinel
        /\ eeprom >= shownScore
        /\ shownHigh = eeprom

\* Game over on a cell that was never written: the score 2 of three lost
\* rounds replaced the 255.
C20_Witness ==
  /\ GameIsOver
  /\ hsBefore = Sentinel
  /\ Level = 3
  /\ hsArg = 2
  /\ eeprom = 2

=============================================================================
